---- MODULE Spec2Model ----
(***************************************************************************)
(* ReFoldr (refoldr.py): renames album folders to "YYYY - Album".          *)
(*                                                                         *)
(* A string is a sequence of characters, a character a one-character TLA+  *)
(* string (the three Unicode dashes are named).  A path is a sequence of   *)
(* names, absolute, so that str(path) is "/" joined.  The regular          *)
(* expressions of the source are translated to the operators below,        *)
(* character by character.                                                 *)
(***************************************************************************)
EXTENDS Integers, Sequences, FiniteSets, TLC

\* ------------------------------------------------------------------------
\* Characters
\* ------------------------------------------------------------------------
EnDash == "en-dash"
EmDash == "em-dash"
MinusSign == "minus-sign"

Digits == {"0", "1", "2", "3", "4", "5", "6", "7", "8", "9"}

UpperCase == <<"A", "B", "C", "D", "E", "F", "G", "H", "I", "J", "K", "L", "M",
               "N", "O", "P", "Q", "R", "S", "T", "U", "V", "W", "X", "Y", "Z">>

LowerCase == <<"a", "b", "c", "d", "e", "f", "g", "h", "i", "j", "k", "l", "m",
               "n", "o", "p", "q", "r", "s", "t", "u", "v", "w", "x", "y", "z">>

Letters == {UpperCase[i] : i \in 1..26} \cup {LowerCase[i] : i \in 1..26}

\* \s of the regular expressions, and what str.strip() strips
Whitespace == {" ", "\t"}

\* \w
IsWord(c) == c \in Letters \/ c \in Digits \/ c = "_"

\* the lower-case letter of each upper-case letter
ToLower ==
  [c \in {UpperCase[i] : i \in 1..26} |->
     LowerCase[CHOOSE i \in 1..26 : UpperCase[i] = c]]

\* str.lower() on one character
lower(c) == IF c \in DOMAIN ToLower THEN ToLower[c] ELSE c

Lower(s) == [i \in 1..Len(s) |-> lower(s[i])]

\* ------------------------------------------------------------------------
\* String helpers (str.strip, str.replace, `in`, \b)
\* ------------------------------------------------------------------------
Max(S) == CHOOSE x \in S : \A y \in S : y <= x

Min(S) == CHOOSE x \in S : \A y \in S : x <= y

\* s.lstrip(chars)
LStrip(s, chars) ==
  LET keep == {i \in 1..Len(s) : s[i] \notin chars}
  IN IF keep = {} THEN <<>> ELSE SubSeq(s, Min(keep), Len(s))

\* s.rstrip(chars); also re.sub(r"[chars]+$", "", s)
RStrip(s, chars) ==
  LET keep == {i \in 1..Len(s) : s[i] \notin chars}
  IN IF keep = {} THEN <<>> ELSE SubSeq(s, 1, Max(keep))

Strip(s, chars) == LStrip(RStrip(s, chars), chars)

\* sub occurs in s at position i
MatchAt(s, sub, i) ==
  /\ i >= 1
  /\ i + Len(sub) - 1 <= Len(s)
  /\ \A k \in 1..Len(sub) : s[i + k - 1] = sub[k]

\* sub in s
Contains(s, sub) == \E i \in 1..(Len(s) - Len(sub) + 1) : MatchAt(s, sub, i)

\* s.replace(old, ""): every non-overlapping occurrence, left to right
RECURSIVE RemoveAllFrom(_, _, _)
RemoveAllFrom(s, old, i) ==
  IF i > Len(s) THEN <<>>
  ELSE IF Len(old) > 0 /\ MatchAt(s, old, i) THEN RemoveAllFrom(s, old, i + Len(old))
  ELSE <<s[i]>> \o RemoveAllFrom(s, old, i + 1)

RemoveAll(s, old) == RemoveAllFrom(s, old, 1)

\* \b between s[i] and s[i+1] (i = 0: the start, i = Len(s): the end)
WordBoundary(s, i) ==
  LET before == i >= 1 /\ IsWord(s[i])
      after == i < Len(s) /\ IsWord(s[i + 1])
  IN before # after

\* ------------------------------------------------------------------------
\* sanitize
\* ------------------------------------------------------------------------
\* name.replace("@", "").replace("~", ""), then the two re.sub of { and }
RemoveChars(s, chars) == SelectSeq(s, LAMBDA c : c \notin chars)

\* re.sub(r"[en-dash em-dash minus]", "-", name)
NormalizeDashes(s) ==
  [i \in 1..Len(s) |-> IF s[i] \in {EnDash, EmDash, MinusSign} THEN "-" ELSE s[i]]

\* re.sub(r"\s+", " ", name)
RECURSIVE CollapseFrom(_, _)
CollapseFrom(s, i) ==
  IF i > Len(s) THEN <<>>
  ELSE IF s[i] \notin Whitespace THEN <<s[i]>> \o CollapseFrom(s, i + 1)
  ELSE IF i > 1 /\ s[i - 1] \in Whitespace THEN CollapseFrom(s, i + 1)
  ELSE <<" ">> \o CollapseFrom(s, i + 1)

CollapseWhitespace(s) == CollapseFrom(s, 1)

\* the number of digits from position i on (\d+, greedy)
DigitRun(s, i) ==
  LET stop == {k \in i..Len(s) : s[k] \notin Digits}
  IN IF i > Len(s) THEN 0
     ELSE IF stop = {} THEN Len(s) - i + 1
     ELSE Min(stop) - i

\* (?:cd|disc), IGNORECASE: the length of the keyword at i, 0 if none
DiscKeywordLen(s, i) ==
  IF i + 1 <= Len(s) /\ lower(s[i]) = "c" /\ lower(s[i + 1]) = "d" THEN 2
  ELSE IF /\ i + 3 <= Len(s)
          /\ lower(s[i]) = "d"
          /\ lower(s[i + 1]) = "i"
          /\ lower(s[i + 2]) = "s"
          /\ lower(s[i + 3]) = "c" THEN 4
  ELSE 0

\* (?<!\()(?<!\w)((?:cd|disc)(\d+))(?!\)) at position i: the number of digits
\* matched, 0 when the pattern does not match there.  \d+ gives one digit
\* back when the greedy run is followed by ")".
DiscDigitsFor(s, i, k, n) ==
  IF /\ k > 0
     /\ (i = 1 \/ (s[i - 1] # "(" /\ ~IsWord(s[i - 1])))
     /\ (IF i + k + n <= Len(s) /\ s[i + k + n] = ")" THEN n - 1 ELSE n) >= 1
  THEN (IF i + k + n <= Len(s) /\ s[i + k + n] = ")" THEN n - 1 ELSE n)
  ELSE 0

DiscDigitsAt(s, i) ==
  DiscDigitsFor(s, i, DiscKeywordLen(s, i), DigitRun(s, i + DiscKeywordLen(s, i)))

\* re.sub of the disc pattern by "(Disc N)": matches are found on the string
\* as it was, left to right, not overlapping
RECURSIVE DiscSubFrom(_, _)
DiscReplace(s, i, k, m) ==
  IF m > 0
  THEN <<"(", "D", "i", "s", "c", " ">> \o SubSeq(s, i + k, i + k + m - 1)
         \o <<")">> \o DiscSubFrom(s, i + k + m)
  ELSE <<s[i]>> \o DiscSubFrom(s, i + 1)

DiscSubFrom(s, i) ==
  IF i > Len(s) THEN <<>>
  ELSE DiscReplace(s, i, DiscKeywordLen(s, i), DiscDigitsAt(s, i))

DiscSub(s) == DiscSubFrom(s, 1)

sanitize(name) ==
  DiscSub(RStrip(Strip(CollapseWhitespace(
            NormalizeDashes(RemoveChars(RemoveChars(name, {"@", "~"}),
                                        {"{", "}"}))),
          Whitespace), {"-"} \cup Whitespace))

\* ------------------------------------------------------------------------
\* remove_band_name
\* ------------------------------------------------------------------------
\* ^<band>(['\s]?s)?\b, IGNORECASE: the length of the match at the start of
\* the title, -1 when there is none.  The alternatives are tried in the
\* order the regular expression tries them.
BandMatchLen(album_title, band_name) ==
  LET n == Len(band_name)
      t == album_title
  IN IF ~(n <= Len(t) /\ Lower(SubSeq(t, 1, n)) = Lower(band_name)) THEN -1
     ELSE IF /\ n + 2 <= Len(t)
             /\ t[n + 1] \in {"'"} \cup Whitespace
             /\ lower(t[n + 2]) = "s"
             /\ WordBoundary(t, n + 2) THEN n + 2
     ELSE IF /\ n + 1 <= Len(t)
             /\ lower(t[n + 1]) = "s"
             /\ WordBoundary(t, n + 1) THEN n + 1
     ELSE IF WordBoundary(t, n) THEN n
     ELSE -1

RemoveMatch(album_title, m) ==
  LStrip(IF m < 0 THEN album_title
         ELSE SubSeq(album_title, m + 1, Len(album_title)),
         {" ", "-"})

remove_band_name(album_title, band_name) ==
  RemoveMatch(album_title, BandMatchLen(album_title, band_name))

\* ------------------------------------------------------------------------
\* move_year_in_front
\* ------------------------------------------------------------------------
\* \b(\d{4})\b matches at position i
YearAt(s, i) ==
  /\ i >= 1
  /\ i + 3 <= Len(s)
  /\ \A k \in 0..3 : s[i + k] \in Digits
  /\ WordBoundary(s, i - 1)
  /\ WordBoundary(s, i + 3)

\* re.sub(r"\(\s*\)", "", title)
RECURSIVE RemoveEmptyParensFrom(_, _)
RemoveEmptyParensFrom(s, i) ==
  IF i > Len(s) THEN <<>>
  ELSE LET rest == {k \in (i + 1)..Len(s) : s[k] \notin Whitespace}
           j == IF rest = {} THEN 0 ELSE Min(rest)
       IN IF s[i] = "(" /\ j > 0 /\ s[j] = ")"
          THEN RemoveEmptyParensFrom(s, j + 1)
          ELSE <<s[i]>> \o RemoveEmptyParensFrom(s, i + 1)

RemoveEmptyParens(s) == RemoveEmptyParensFrom(s, 1)

\* f"{year} - {title}" if title else year
YearInFront(year, title) ==
  IF title # <<>> THEN year \o <<" ", "-", " ">> \o title ELSE year

\* the title with the year string replaced by "", stripped, its empty
\* parentheses removed, stripped again
WithoutYear(album_title, year) ==
  Strip(RemoveEmptyParens(Strip(RemoveAll(album_title, year), {" ", "-"})),
        Whitespace)

MoveYearAt(album_title, year) ==
  YearInFront(year, WithoutYear(album_title, year))

MoveFirstYear(album_title, hits) ==
  IF hits = {} THEN album_title
  ELSE MoveYearAt(album_title, SubSeq(album_title, Min(hits), Min(hits) + 3))

move_year_in_front(album_title) ==
  MoveFirstYear(album_title,
                {i \in 1..Len(album_title) : YearAt(album_title, i)})

\* ------------------------------------------------------------------------
\* Edge cases and the -e option
\* ------------------------------------------------------------------------
EDGE_CASES ==
  { <<"I", "n", " ", "T", "i", "m", "e", "_", " ", "T", "h", "e", " ", "B",
      "e", "s", "t", " ", "O", "f", " ", "R", ".", "E", ".", "M", ".">>,
    <<"1", "9", "9", "2", EnDash, "2", "0", "1", "2", " ", "-", " ", "T",
      "h", "e", " ", "A", "n", "t", "h", "o", "l", "o", "g", "y">>,
    <<"T", "h", "e", " ", "B", "e", "s", "t", " ", "O", "f", " ", "1", "9",
      "8", "0", " ", "1", "9", "9", "0", " ", "&", " ", "B", " ", "S", "i",
      "d", "e", "s">>,
    <<"T", "h", "e", " ", "B", "e", "s", "t", " ", "O", "f", " ", "1", "9",
      "9", "0", "-", "2", "0", "0", "0">> }

Remaster == <<"r", "e", "m", "a", "s", "t", "e", "r">>

Delux == <<"d", "e", "l", "u", "x">>

Multiyears == <<"m", "u", "l", "t", "i", "y", "e", "a", "r", "s">>

EDGE_MAPPING(opt) ==
  IF opt = <<"r">> THEN Remaster
  ELSE IF opt = <<"d">> THEN Delux
  ELSE IF opt = <<"m">> THEN Multiyears
  ELSE opt

\* s.split(sep), sep one character
RECURSIVE Split(_, _)
Split(s, sep) ==
  LET hits == {i \in 1..Len(s) : s[i] = sep}
  IN IF hits = {} THEN <<s>>
     ELSE <<SubSeq(s, 1, Min(hits) - 1)>>
            \o Split(SubSeq(s, Min(hits) + 1, Len(s)), sep)

\* the set EDGE_OPTIONS built from args.edge
EDGE_OPTIONS(edge) ==
  LET parts == Split(Lower(edge), ",")
      opts == {Strip(parts[i], Whitespace) : i \in 1..Len(parts)}
  IN {EDGE_MAPPING(opt) : opt \in {o \in opts : o # <<>>}}

\* str(path) of an absolute path
RECURSIVE PathStr(_)
PathStr(path) ==
  IF path = <<>> THEN <<>>
  ELSE PathStr(SubSeq(path, 1, Len(path) - 1)) \o <<"/">> \o path[Len(path)]

\* \b\d{4}\s*[-en-dash]\s*\d{4}\b matches at position i
YearSpanAt(s, i) ==
  LET FourDigits(j) == j + 3 <= Len(s) /\ \A k \in 0..3 : s[j + k] \in Digits
      SkipWs(j) ==
        LET stop == {k \in j..Len(s) : s[k] \notin Whitespace}
        IN IF stop = {} THEN Len(s) + 1 ELSE Min(stop)
      dash == SkipWs(i + 4)
      second == SkipWs(dash + 1)
  IN /\ WordBoundary(s, i - 1)
     /\ FourDigits(i)
     /\ dash <= Len(s)
     /\ s[dash] \in {"-", EnDash}
     /\ FourDigits(second)
     /\ WordBoundary(s, second + 3)

HasYearSpan(s) == \E i \in 1..Len(s) : YearSpanAt(s, i)

\* is_edge_case as it would be if an enabled option returned early: with
\* remaster enabled, a path with 'remaster' in it is no edge case whatever
\* else it holds
is_edge_case_enabled_returns(path, options) ==
  LET base == Lower(PathStr(path))
  IN IF Contains(base, Remaster) /\ Remaster \in options THEN FALSE
     ELSE \/ Contains(base, Remaster)
          \/ Contains(base, Delux) /\ Delux \notin options
          \/ HasYearSpan(base) /\ Multiyears \notin options
          \/ \E pattern \in EDGE_CASES : Contains(base, Lower(pattern))

\* pattern.lower() for each pattern of EDGE_CASES
EDGE_CASES_lower == {Lower(pattern) : pattern \in EDGE_CASES}

is_edge_case(path, options) ==
  LET base == Lower(PathStr(path))
  IN \/ Contains(base, Remaster) /\ Remaster \notin options
     \/ Contains(base, Delux) /\ Delux \notin options
     \/ HasYearSpan(base) /\ Multiyears \notin options
     \/ \E pattern \in EDGE_CASES_lower : Contains(base, pattern)

\* ------------------------------------------------------------------------
\* Messages written to the log files
\* ------------------------------------------------------------------------
DRY_RUN_PREFIX ==
  <<"[", "D", "R", "Y", "-", "R", "U", "N", "]", " ">>

RENAME_TAG ==
  <<"[", "R", "E", "N", "A", "M", "E", "]", ":", " ">>

ARROW ==
  <<" ", "-", ">", " ">>

SKIP_TAG ==
  <<"[", "S", "K", "I", "P", "]", " ", "E", "d", "g", "e", " ", "c", "a",
    "s", "e", ":", " ">>

UNCHANGED_TAG ==
  <<"[", "U", "N", "C", "H", "A", "N", "G", "E", "D", "]", " ", "E", "m",
    "p", "t", "y", " ", "t", "i", "t", "l", "e", " ", "a", "f", "t", "e",
    "r", " ", "s", "a", "n", "i", "t", "i", "z", "a", "t", "i", "o", "n",
    ":", " ">>

NOT_FOUND_EMPTY_TAG ==
  <<"[", "D", "I", "S", "C", "O", "G", "S", "]", "[", "N", "O", "T", "-",
    "F", "O", "U", "N", "D", "]", " ", "D", "i", "s", "c", "o", "g", "s",
    " ", "A", "P", "I", " ", "n", "o", "t", " ", "f", "o", "u", "n", "d",
    " ", "f", "o", "r", " ">>

NOT_FOUND_TAG ==
  <<"[", "N", "O", "T", "-", "F", "O", "U", "N", "D", "]", " ", "D", "i",
    "s", "c", "o", "g", "s", " ", "A", "P", "I", " ", "n", "o", "t", " ",
    "f", "o", "u", "n", "d", " ", "f", "o", "r", " ">>

ERROR_TAG ==
  <<"[", "E", "R", "R", "O", "R", "]", " ", "D", "i", "s", "c", "o", "g",
    "s", " ", "A", "P", "I", " ", "f", "a", "i", "l", "e", "d", " ", "f",
    "o", "r", " ">>

DEFLAT_FAIL_TAG ==
  <<"[", "D", "E", "F", "L", "A", "T", "]", "[", "F", "A", "I", "L", "]",
    " ", "N", "o", "t", " ", "f", "o", "u", "n", "d", " ", "a", "r", "t",
    "i", "s", "t", " ", "a", "l", "b", "u", "m", " ">>

DEFLAT_TAG ==
  <<"[", "D", "E", "F", "L", "A", "T", "]", " ">>

DEFLAT_DRY_TAG ==
  <<"[", "D", "R", "Y", "-", "R", "U", "N", "]", "[", "D", "E", "F", "L",
    "A", "T", "]", " ">>

\* ------------------------------------------------------------------------
\* Paths and the directory tree
\* ------------------------------------------------------------------------
\* path.parent
Parent(path) == SubSeq(path, 1, Len(path) - 1)

\* path.name
Name(path) == IF path = <<>> THEN <<>> ELSE path[Len(path)]

\* parent / name (joining an empty name gives the parent itself)
PathJoin(parent, name) == IF name = <<>> THEN parent ELSE Append(parent, name)

IsPrefix(p, q) == Len(p) <= Len(q) /\ SubSeq(q, 1, Len(p)) = p

\* the entries directly inside directory p
Children(entries, p) == {q \in entries : Len(q) = Len(p) + 1 /\ IsPrefix(p, q)}

\* str(path.relative_to(cwd))
RECURSIVE JoinNames(_)
JoinNames(names) ==
  IF names = <<>> THEN <<>>
  ELSE IF Len(names) = 1 THEN names[1]
  ELSE names[1] \o <<"/">> \o JoinNames(Tail(names))

RelStr(path, cwd) ==
  IF path = cwd THEN <<".">> ELSE JoinNames(SubSeq(path, Len(cwd) + 1, Len(path)))

\* Path.suffix
Suffix(name) ==
  LET dots == {i \in 1..Len(name) : name[i] = "."}
  IN IF dots = {} THEN <<>>
     ELSE IF Max(dots) > 1 /\ Max(dots) < Len(name)
     THEN SubSeq(name, Max(dots), Len(name))
     ELSE <<>>

MUSIC_EXTS ==
  { <<".", "m", "p", "3">>, <<".", "f", "l", "a", "c">>, <<".", "w", "a", "v">>,
    <<".", "o", "g", "g">>, <<".", "m", "4", "a">>, <<".", "a", "a", "c">> }

\* os.rename(old, new) of a directory raises: the target is a file, a
\* directory that is not empty, lies inside old, or has no parent directory
RenameRaises(ds, fs, old, new) ==
  /\ new # old
  /\ \/ new \in fs
     \/ new \in ds /\ Children(ds \cup fs, new) # {}
     \/ IsPrefix(old, new)
     \/ Parent(new) \notin ds

\* the entries if the folder were copied: old and all below it stay
Moved_copied(entries, old, new) ==
  entries \cup
    {new \o SubSeq(q, Len(old) + 1, Len(q)) : q \in {e \in entries : IsPrefix(old, e)}}

\* the entries after os.rename(old, new): old and all below it move
Moved(entries, old, new) ==
  {IF IsPrefix(old, q) THEN new \o SubSeq(q, Len(old) + 1, Len(q)) ELSE q :
     q \in entries}

\* ------------------------------------------------------------------------
\* get_year_from_discogs
\* ------------------------------------------------------------------------
\* What the request gives: an exception (requests.get or raise_for_status
\* raises, with its text), or the "results" of the JSON body, each result
\* with its year (<<>>: the result has none).
Year1992 == <<"1", "9", "9", "2">>

Year2001 == <<"2", "0", "0", "1">>

Responses ==
  { [raised |-> TRUE, text |-> <<"4", "0", "4">>, results |-> <<>>],
    [raised |-> FALSE, text |-> <<>>, results |-> <<>>],
    [raised |-> FALSE, text |-> <<>>, results |-> << <<>> >>],
    [raised |-> FALSE, text |-> <<>>, results |-> << <<>>, Year1992, Year2001 >>] }

\* the year returned (<<>>: None) and the lines written to not_found.log
get_year_from_discogs(band_name, album_title, token, response) ==
  LET for == band_name \o <<"/">> \o album_title
      withYear == {i \in 1..Len(response.results) : response.results[i] # <<>>}
  IN IF ~token THEN [year |-> <<>>, lines |-> <<>>]
     ELSE IF response.raised
       THEN [year |-> <<>>,
             lines |-> <<ERROR_TAG \o for \o <<":", " ">> \o response.text>>]
     ELSE IF response.results = <<>>
       THEN [year |-> <<>>, lines |-> <<NOT_FOUND_EMPTY_TAG \o for>>]
     ELSE IF withYear # {}
       THEN [year |-> response.results[Min(withYear)], lines |-> <<>>]
     ELSE [year |-> <<>>, lines |-> <<NOT_FOUND_TAG \o for>>]

\* ------------------------------------------------------------------------
\* rename_album_folder
\* ------------------------------------------------------------------------
\* re.match(r"^\d{4} - ", album_title)
StartsWithYear(album_title) ==
  /\ Len(album_title) >= 7
  /\ \A k \in 1..4 : album_title[k] \in Digits
  /\ SubSeq(album_title, 5, 7) = <<" ", "-", " ">>

\* the lookup as it would be gated without the edge-case branch
needs_lookup_ungated(edge, album_title) == ~StartsWithYear(album_title)

\* the else branch is taken and its "if not re.match" holds
needs_lookup(edge, album_title) == ~edge /\ ~StartsWithYear(album_title)

NoYear == [year |-> <<>>, lines |-> <<>>]

\* the title after the year move, and whether the lookup is to be called
YearMoved(band_name, sanitized, edge, moved) ==
  [band_name |-> band_name,
   sanitized |-> sanitized,
   edge |-> edge,
   moved |-> moved,
   lookup |-> needs_lookup(edge, moved)]

\* "if is_edge_case(path): ... else: album_title = move_year_in_front(...)"
Sanitized(band_name, sanitized, edge) ==
  YearMoved(band_name, sanitized, edge,
            IF edge THEN sanitized ELSE move_year_in_front(sanitized))

\* lines 179-195: band prefix, sanitize, edge case, year move
title_before_lookup(path, options) ==
  Sanitized(Name(Parent(path)),
            sanitize(remove_band_name(Name(path), Name(Parent(path)))),
            is_edge_case(path, options))

\* the title if "if year" were left out: a failed lookup changes it
WithYear_unchecked(pre, got) ==
  [band_name |-> pre.band_name,
   sanitized |-> pre.sanitized,
   edge |-> pre.edge,
   moved |-> pre.moved,
   lookups |-> IF pre.lookup THEN 1 ELSE 0,
   year |-> got.year,
   not_found |-> got.lines,
   title |-> IF pre.lookup
             THEN got.year \o <<" ", "-", " ">> \o pre.moved
             ELSE pre.moved]

\* "if year: album_title = f"{year} - {album_title}""
WithYear(pre, got) ==
  [band_name |-> pre.band_name,
   sanitized |-> pre.sanitized,
   edge |-> pre.edge,
   moved |-> pre.moved,
   lookups |-> IF pre.lookup THEN 1 ELSE 0,
   year |-> got.year,
   not_found |-> got.lines,
   title |-> IF got.year # <<>>
             THEN got.year \o <<" ", "-", " ">> \o pre.moved
             ELSE pre.moved]

\* lines 196-198: the lookup, when it is called
title_after_lookup(pre, token, response) ==
  WithYear(pre,
           IF pre.lookup
           THEN get_year_from_discogs(pre.band_name, pre.moved, token, response)
           ELSE NoYear)

\* the title stages of rename_album_folder, lines 179-198
album_title_stages(path, options, token, response) ==
  title_after_lookup(title_before_lookup(path, options), token, response)

\* the message of line 215
rename_msg(dry_run, rel_path, new_path) ==
  (IF dry_run THEN DRY_RUN_PREFIX ELSE <<>>)
    \o RENAME_TAG \o rel_path \o ARROW \o PathStr(new_path)

\* the rename as it would be without the dry-run test
rename_applies_always(dry_run) == TRUE

\* "if not args.dry_run" of line 219
rename_applies(dry_run) == ~dry_run

\* the decision of lines 201-220 and the tree after it
RenameOutcome(path, st, rel_path, new_path, decision, renames, raises, dry_run, ds, fs) ==
  [op |-> "rename_album_folder",
   path |-> path,
   stages |-> st,
   decision |-> decision,
   new_path |-> new_path,
   skipped |-> (IF st.edge THEN <<SKIP_TAG \o rel_path>> ELSE <<>>)
                 \o (IF decision = "empty"
                     THEN <<UNCHANGED_TAG \o rel_path>> ELSE <<>>),
   not_found |-> st.not_found,
   renamed |-> IF decision = "rename"
               THEN <<rename_msg(dry_run, rel_path, new_path)>> ELSE <<>>,
   rename_called |-> renames,
   raised |-> raises,
   dirs |-> IF renames /\ ~raises THEN Moved(ds, path, new_path) ELSE ds,
   files |-> IF renames /\ ~raises THEN Moved(fs, path, new_path) ELSE fs]

RenameDecided(path, st, rel_path, new_path, decision, dry_run, ds, fs) ==
  RenameOutcome(path, st, rel_path, new_path, decision,
                decision = "rename" /\ rename_applies(dry_run),
                /\ decision = "rename"
                /\ rename_applies(dry_run)
                /\ RenameRaises(ds, fs, path, new_path),
                dry_run, ds, fs)

RenameDecision(path, cwd, dry_run, ds, fs, st) ==
  RenameDecided(path, st, RelStr(path, cwd), Append(Parent(path), st.title),
                IF st.title = <<>> THEN "empty"
                ELSE IF Append(Parent(path), st.title) = path THEN "same"
                ELSE "rename",
                dry_run, ds, fs)

\* the whole of rename_album_folder on the tree (ds, fs): the stages, the
\* lines for each log, the decision and the tree after it
rename_album_folder(path, cwd, a, token, response, ds, fs) ==
  RenameDecision(path, cwd, a.dry_run, ds, fs,
                 album_title_stages(path, EDGE_OPTIONS(a.edge), token,
                                    response))

\* ------------------------------------------------------------------------
\* The flatten pass
\* ------------------------------------------------------------------------
contains_music_files(path, fs) ==
  \E f \in Children(fs, path) : Lower(Suffix(Name(f))) \in MUSIC_EXTS

is_flatten_dir_contains_music(path, cwd, ds, fs) ==
  path \in ds /\ contains_music_files(path, fs) /\ Parent(path) = cwd

\* "if not args.dry_run" of line 246
deflat_applies(dry_run) == ~dry_run

\* mkdir and rename of lines 247-248, and the line for deflat.log
DeflatOutcome(path, found, artist_folder, album_folder, applies, mkdir_raises, rename_raises, ds, fs) ==
  [op |-> "deflat_dir",
   path |-> path,
   found |-> found,
   artist_folder |-> IF found THEN artist_folder ELSE <<>>,
   album_folder |-> IF found THEN album_folder ELSE <<>>,
   raised |-> mkdir_raises \/ rename_raises,
   moved |-> applies /\ ~mkdir_raises /\ ~rename_raises,
   lines |-> IF mkdir_raises \/ rename_raises THEN <<>>
             ELSE IF ~found
               THEN <<DEFLAT_FAIL_TAG \o PathStr(path) \o <<"/">>>>
             ELSE IF applies
               THEN <<DEFLAT_TAG \o PathStr(path) \o ARROW
                        \o PathStr(album_folder) \o <<"/">>>>
             ELSE <<DEFLAT_DRY_TAG \o PathStr(path) \o ARROW
                      \o PathStr(album_folder)>>,
   dirs |-> IF applies /\ ~mkdir_raises /\ ~rename_raises
            THEN Moved(ds \cup {artist_folder}, path, album_folder)
            ELSE IF applies /\ ~mkdir_raises THEN ds \cup {artist_folder}
            ELSE ds,
   files |-> IF applies /\ ~mkdir_raises /\ ~rename_raises
             THEN Moved(fs, path, album_folder)
             ELSE fs]

DeflatTo(path, found, artist_folder, album_folder, applies, ds, fs) ==
  DeflatOutcome(path, found, artist_folder, album_folder, applies,
                applies /\ artist_folder \in fs,
                /\ applies
                /\ artist_folder \notin fs
                /\ RenameRaises(ds \cup {artist_folder}, fs, path, album_folder),
                ds, fs)

DeflatParts(path, found, artist_name, album_name, dry_run, ds, fs) ==
  DeflatTo(path, found,
           PathJoin(Parent(path), artist_name),
           PathJoin(PathJoin(Parent(path), artist_name), album_name),
           found /\ deflat_applies(dry_run), ds, fs)

\* path.name.split(" - ", 1) at the first " - " (position at, 0: none)
DeflatSplit(path, name, at, dry_run, ds, fs) ==
  DeflatParts(path, at > 0,
              Strip(SubSeq(name, 1, at - 1), Whitespace),
              Strip(SubSeq(name, at + 3, Len(name)), Whitespace),
              dry_run, ds, fs)

FirstSeparator(name, hits) == IF hits = {} THEN 0 ELSE Min(hits)

\* the whole of deflat_dir on the tree (ds, fs)
deflat_dir(path, dry_run, ds, fs) ==
  DeflatSplit(path, Name(path),
              FirstSeparator(Name(path),
                             {i \in 1..Len(Name(path)) :
                                MatchAt(Name(path), <<" ", "-", " ">>, i)}),
              dry_run, ds, fs)

\* ------------------------------------------------------------------------
\* The run: state
\* ------------------------------------------------------------------------
VARIABLES
  args,           \* the parsed command line: dry_run, deflat, edge, levels
  DISCOGS_TOKEN,  \* whether config.env gives a token
  root,           \* Path.cwd()
  dirs,           \* the directories of the filesystem (absolute paths)
  files,          \* its regular files
  pc,             \* "start", "deflat", "walk", "done", "raised"
  folders,        \* the entries of root.iterdir() still to come
  stack,          \* os.walk: the directories still to walk, a frame of
                  \* siblings per level, innermost first
  root_level,
  renamed_log,
  skipped_log,
  not_found_log,
  deflat_log,
  last,           \* what the last step called, and what the call did
  visited,        \* the directories os.walk has yielded
  processed,      \* the directories rename_album_folder was called on
  start_tree,     \* the tree the run started on
  input,          \* the arguments of a function applied on its own
  output          \* and its result

vars ==
  <<args, DISCOGS_TOKEN, root, dirs, files, pc, folders, stack, root_level,
    renamed_log, skipped_log, not_found_log, deflat_log, last, visited,
    processed, start_tree, input, output>>

\* ------------------------------------------------------------------------
\* The trees and command lines the run is started on
\* ------------------------------------------------------------------------
MaxEntries == 2

MaxLevel == 2

NameQ ==
  <<"Q">>

NameFlat ==
  <<"Q", " ", " ", "-", " ", "L", "i", "v", "e", " ", "-", " ", "1", "9",
    "9", "2">>

NameMix ==
  <<"M", "i", "x">>

NameLive1992 ==
  <<"L", "i", "v", "e", " ", "-", " ", "1", "9", "9", "2">>

NameTwice ==
  <<"1", "9", "9", "2", " ", "-", " ", "1", "9", "9", "2">>

NameHits ==
  <<"Q", " ", "H", "i", "t", "s", " ", "R", "e", "m", "a", "s", "t", "e",
    "r", "~">>

NameLive ==
  <<"L", "i", "v", "e">>

NameScans ==
  <<"S", "c", "a", "n", "s">>

NameFormatted ==
  <<"1", "9", "9", "2", " ", "-", " ", "L", "i", "v", "e">>

NameTrack ==
  <<"a", ".", "M", "P", "3">>

NameRoot ==
  <<"m">>

Root == <<NameRoot>>

\* A folder (kind "dir"), a folder holding one music file ("music") or a
\* regular file ("file"), at a path relative to the root.
Universe ==
  { [path |-> <<NameFlat>>, kind |-> "music"],
    [path |-> <<NameMix>>, kind |-> "music"],
    [path |-> <<NameQ>>, kind |-> "file"],
    [path |-> <<NameQ, NameLive1992>>, kind |-> "music"],
    [path |-> <<NameQ, NameLive1992, NameScans>>, kind |-> "dir"],
    [path |-> <<NameQ, NameTwice>>, kind |-> "music"],
    [path |-> <<NameQ, NameHits>>, kind |-> "music"],
    [path |-> <<NameQ, NameLive>>, kind |-> "music"],
    [path |-> <<NameQ, NameFormatted>>, kind |-> "dir"] }

TreeDirs(S) ==
  {<<>>, Root} \cup
  UNION { {Root \o SubSeq(e.path, 1, k) :
             k \in 1..(IF e.kind = "file" THEN Len(e.path) - 1 ELSE Len(e.path))} :
          e \in S }

TreeFiles(S) ==
  {Root \o e.path : e \in {x \in S : x.kind = "file"}} \cup
  {Root \o e.path \o <<NameTrack>> : e \in {x \in S : x.kind = "music"}}

Trees ==
  {S \in SUBSET Universe :
     Cardinality(S) <= MaxEntries /\ TreeDirs(S) \cap TreeFiles(S) = {}}

EdgeArgs == {<<>>, <<"M">>}

\* ------------------------------------------------------------------------
\* The arguments the functions are applied to on their own
\* ------------------------------------------------------------------------
MaxChunks == 3

RECURSIVE Concat(_)
Concat(chunks) ==
  IF chunks = <<>> THEN <<>> ELSE Head(chunks) \o Concat(Tail(chunks))

\* the strings made of at most n of the chunks
Strings(chunks, n) ==
  UNION { {Concat(c) : c \in [1..k -> chunks]} : k \in 0..n }

SanitizeChunks ==
  { <<"c", "d", "1">>,
    <<"C", "D", "1", "2">>,
    <<"d", "i", "s", "c", "2">>,
    <<"(", "D", "i", "s", "c", " ", "2", ")">>,
    <<"A", "l", "b", "u", "m">>,
    <<" ">>,
    <<"-">>,
    <<")">>,
    <<"@">> }

YearChunks ==
  { <<"1", "9", "9", "2">>,
    <<"1", "9", "9", "2", "1">>,
    <<"2", "0", "0", "1">>,
    <<"L", "i", "v", "e">>,
    <<" ">>,
    <<"-">>,
    <<"(">>,
    <<")">> }

BandNames ==
  { <<"Q", "u", "e", "e", "n">>,
    <<"R", ".", "E", ".", "M", ".">> }

\* what may follow the band name in a title
AfterBandChunks ==
  { <<" ">>,
    <<"'", "s">>,
    <<"s">>,
    <<"S">>,
    <<"-">>,
    <<"r", "y", "c", "h", "e">>,
    <<"A", "u", "t", "o", "m", "a", "t", "i", "c", " ", "F", "o", "r", " ",
        "T", "h", "e", " ", "P", "e", "o", "p", "l", "e">> }

EdgeNameChunks ==
  { <<"L", "i", "v", "e">>,
    <<"R", "e", "M", "a", "s", "t", "e", "r">>,
    <<"d", "e", "l", "u", "x", "e">>,
    <<"1", "9", "9", "0", " ", "-", " ", "2", "0", "0", "1">>,
    <<"1", "9", "9", "0", EnDash, "2", "0", "0", "1", "x">>,
    <<"T", "h", "e", " ", "B", "e", "s", "t", " ", "O", "f", " ", "1", "9",
        "9", "0", "-", "2", "0", "0", "0">>,
    <<" ">> }

EdgeArgStrings ==
  { <<>>,
    <<"r">>,
    <<"R">>,
    <<"r", "e", "m", "a", "s", "t", "e", "r">>,
    <<"d">>,
    <<"D", "e", "l", "u", "x">>,
    <<"m">>,
    <<"x">>,
    <<"r", ",", "d">>,
    <<"d", ",", " ", "m">>,
    <<"r", ",", "d", ",", "m">>,
    <<" ", "r", " ", ",", "m", "u", "l", "t", "i", "y", "e", "a", "r", "s">> }

EdgeBands ==
  { <<"Q">>,
    <<"R", "e", "m", "a", "s", "t", "e", "r", "s">> }

NoInput ==
  [fn |-> "none", title |-> <<>>, band |-> <<>>, path |-> <<>>, edge |-> <<>>]

NoOutput == [done |-> FALSE, result |-> <<>>]

SanitizeInputs ==
  {[NoInput EXCEPT !.fn = "sanitize", !.title = t] :
     t \in Strings(SanitizeChunks, MaxChunks)}

MoveYearInputs ==
  {[NoInput EXCEPT !.fn = "move_year_in_front", !.title = t] :
     t \in Strings(YearChunks, MaxChunks)}

\* titles that start with the band name, as it is or in lower case
RemoveBandInputs ==
  {[NoInput EXCEPT !.fn = "remove_band_name", !.title = b[1] \o t,
                   !.band = b[2]] :
     b \in UNION {{<<y, y>>, <<Lower(y), y>>} : y \in BandNames},
     t \in Strings(AfterBandChunks, MaxChunks - 1)}

\* album folders two levels below the root, and -e arguments
EdgeInputs ==
  {[NoInput EXCEPT !.fn = "is_edge_case", !.path = Root \o <<b, n>>,
                   !.edge = e] :
     b \in EdgeBands,
     n \in Strings(EdgeNameChunks, MaxChunks - 1) \ {<<>>},
     e \in EdgeArgStrings}

NoCall == [op |-> "none"]

\* the state the script is in when its loop starts, for a command line, a
\* configuration and a tree
RunInit(a, token, S) ==
  /\ args = a
  /\ DISCOGS_TOKEN = token
  /\ root = Root
  /\ dirs = TreeDirs(S)
  /\ files = TreeFiles(S)
  /\ start_tree = [dirs |-> TreeDirs(S), files |-> TreeFiles(S)]
  /\ pc = "start"
  /\ folders = {}
  /\ stack = <<>>
  /\ root_level = 0
  /\ renamed_log = <<>>
  /\ skipped_log = <<>>
  /\ not_found_log = <<>>
  /\ deflat_log = <<>>
  /\ last = NoCall
  /\ visited = {}
  /\ processed = <<>>

Init ==
  /\ \E a \in [dry_run : BOOLEAN, deflat : BOOLEAN, edge : EdgeArgs,
               start_level : 0..MaxLevel, end_level : 0..MaxLevel],
        token \in BOOLEAN, S \in Trees :
       RunInit(a, token, S)
  /\ input = NoInput
  /\ output = NoOutput

\* ------------------------------------------------------------------------
\* The run: steps
\* ------------------------------------------------------------------------
\* "if args.deflat: for folder in root.iterdir()": the listing is taken once
ListFolders ==
  /\ pc = "start"
  /\ args.deflat
  /\ folders' = Children(dirs \cup files, root)
  /\ pc' = "deflat"
  /\ last' = NoCall
  /\ UNCHANGED <<args, DISCOGS_TOKEN, root, dirs, files, stack, root_level,
                 renamed_log, skipped_log, not_found_log, deflat_log, visited,
                 processed, start_tree, input, output>>

\* what a step keeps of a call: all but the tree, which the step installs
Observed(r) == [f \in DOMAIN r \ {"dirs", "files"} |-> r[f]]

\* the entry is no folder with music right under the root: nothing is called
NotFlatten(folder) ==
  [op |-> "none", path |-> folder, raised |-> FALSE, lines |-> <<>>,
   dirs |-> dirs, files |-> files]

DeflatApply(folder, r) ==
  /\ folders' = folders \ {folder}
  /\ dirs' = r.dirs
  /\ files' = r.files
  /\ deflat_log' = deflat_log \o r.lines
  /\ pc' = IF r.raised THEN "raised" ELSE "deflat"
  /\ last' = Observed(r)

\* one iteration of the deflat loop, on any entry of the listing
DeflatFolder ==
  /\ pc = "deflat"
  /\ \E folder \in folders :
       DeflatApply(folder,
                   IF is_flatten_dir_contains_music(folder, root, dirs, files)
                   THEN deflat_dir(folder, args.dry_run, dirs, files)
                   ELSE NotFlatten(folder))
  /\ UNCHANGED <<args, DISCOGS_TOKEN, root, stack, root_level, renamed_log,
                 skipped_log, not_found_log, visited, processed, start_tree,
                 input, output>>

\* "root_level = len(root.parts)" and the start of os.walk(root)
StartWalk ==
  /\ IF pc = "start" THEN ~args.deflat ELSE pc = "deflat" /\ folders = {}
  /\ root_level' = Len(root)
  /\ stack' = <<{root}>>
  /\ pc' = "walk"
  /\ last' = NoCall
  /\ UNCHANGED <<args, DISCOGS_TOKEN, root, dirs, files, folders, renamed_log,
                 skipped_log, not_found_log, deflat_log, visited, processed,
                 start_tree, input, output>>

\* the frames left once path is taken from the innermost frame, with the
\* frame of its sub-directories (dirnames) pushed unless it is empty
Descend(path, dirnames) ==
  LET rest == Head(stack) \ {path}
      outer == IF rest = {} THEN Tail(stack) ELSE <<rest>> \o Tail(stack)
  IN IF dirnames = {} THEN outer ELSE <<dirnames>> \o outer

\* the body does not call rename_album_folder on this directory
NotCalled(path) ==
  [op |-> "none", path |-> path, raised |-> FALSE, dirs |-> dirs,
   files |-> files, skipped |-> <<>>, not_found |-> <<>>, renamed |-> <<>>]

\* "level == end_level" is reached and holds
Calls(level) == level >= args.start_level /\ level = args.end_level

\* dirnames.clear() is reached
Clears(level) == level >= args.start_level /\ level >= args.end_level

WalkApply(path, listed, level, r) ==
  /\ visited' = IF listed THEN visited \cup {path} ELSE visited
  /\ processed' = IF r.op = "none" THEN processed ELSE Append(processed, path)
  /\ dirs' = r.dirs
  /\ files' = r.files
  /\ skipped_log' = skipped_log \o r.skipped
  /\ not_found_log' = not_found_log \o r.not_found
  /\ renamed_log' = renamed_log \o r.renamed
  /\ last' = Observed(r)
  /\ pc' = IF r.raised THEN "raised" ELSE "walk"
  /\ stack' = Descend(path, IF listed /\ ~Clears(level)
                            THEN Children(dirs, path) ELSE {})

\* the requests the step can see answered: none is made without a lookup
\* or without a token
NoRequest == [raised |-> FALSE, text |-> <<>>, results |-> <<>>]

Requests(pre, token) == IF pre.lookup /\ token THEN Responses ELSE {NoRequest}

NoStages == [lookup |-> FALSE]

\* the body of the loop on a directory os.walk has yielded
WalkListed(path, level, calls, pre) ==
  \E response \in Requests(pre, DISCOGS_TOKEN) :
    WalkApply(path, path \in dirs, level,
              IF calls
              THEN RenameDecision(path, root, args.dry_run, dirs, files,
                                  title_after_lookup(pre, DISCOGS_TOKEN, response))
              ELSE NotCalled(path))

\* one iteration of the walk loop: os.walk lists the next directory and
\* yields it, the body runs, os.walk takes what is left of dirnames
WalkDir ==
  /\ pc = "walk"
  /\ stack # <<>>
  /\ \E path \in Head(stack) :
       WalkListed(path, Len(path) - root_level,
                  path \in dirs /\ Calls(Len(path) - root_level),
                  IF path \in dirs /\ Calls(Len(path) - root_level)
                  THEN title_before_lookup(path, EDGE_OPTIONS(args.edge))
                  ELSE NoStages)
  /\ UNCHANGED <<args, DISCOGS_TOKEN, root, folders, root_level, deflat_log,
                 start_tree, input, output>>

\* the walk is over: the log files are closed
Close ==
  /\ pc = "walk"
  /\ stack = <<>>
  /\ pc' = "done"
  /\ last' = NoCall
  /\ UNCHANGED <<args, DISCOGS_TOKEN, root, dirs, files, folders, stack,
                 root_level, renamed_log, skipped_log, not_found_log,
                 deflat_log, visited, processed, start_tree, input, output>>

Next == ListFolders \/ DeflatFolder \/ StartWalk \/ WalkDir \/ Close

Spec == Init /\ [][Next]_vars

\* ------------------------------------------------------------------------
\* The functions applied on their own, outside a run
\* ------------------------------------------------------------------------
\* the defaults of the argument parser
DefaultArgs ==
  [dry_run |-> FALSE, deflat |-> FALSE, edge |-> <<>>, start_level |-> 1,
   end_level |-> 2]

InitFunctions ==
  /\ RunInit(DefaultArgs, FALSE, {})
  /\ input \in SanitizeInputs \cup MoveYearInputs \cup RemoveBandInputs
                 \cup EdgeInputs
  /\ output = NoOutput

Returns(fn, result) ==
  /\ input.fn = fn
  /\ ~output.done
  /\ output' = [done |-> TRUE, result |-> result]
  /\ UNCHANGED <<args, DISCOGS_TOKEN, root, dirs, files, pc, folders, stack,
                 root_level, renamed_log, skipped_log, not_found_log,
                 deflat_log, last, visited, processed, start_tree, input>>

ApplySanitize == Returns("sanitize", sanitize(input.title))

ApplyRemoveBandName ==
  Returns("remove_band_name", remove_band_name(input.title, input.band))

ApplyMoveYearInFront ==
  Returns("move_year_in_front", move_year_in_front(input.title))

ApplyIsEdgeCase ==
  Returns("is_edge_case", is_edge_case(input.path, EDGE_OPTIONS(input.edge)))

NextFunctions ==
  \/ ApplySanitize
  \/ ApplyRemoveBandName
  \/ ApplyMoveYearInFront
  \/ ApplyIsEdgeCase

SpecFunctions == InitFunctions /\ [][NextFunctions]_vars

\* ------------------------------------------------------------------------
\* Claims about the functions (SpecFunctions)
\* ------------------------------------------------------------------------
Returned(fn) == input.fn = fn /\ output.done

\* the title begins with the band name, compared case-insensitively
BeginsWithBand(title, band) ==
  Len(band) <= Len(title) /\ Lower(SubSeq(title, 1, Len(band))) = Lower(band)

\* the lengths of what may be taken for the possessive after the band
\* name: 's, s, or a space and s, each ending a word
PossessiveLengths(title, band) ==
  LET n == Len(band)
      At(k) == IF n + k <= Len(title) THEN title[n + k] ELSE ""
  IN (IF At(1) \in {"'", " "} /\ lower(At(2)) = "s" /\ ~IsWord(At(3))
      THEN {2} ELSE {})
       \cup (IF lower(At(1)) = "s" /\ ~IsWord(At(2)) THEN {1} ELSE {})

\* C3: remove_band_name(title, band), for a title that begins with the band
\* name (case-insensitively) followed by a space or by a possessive 's / s,
\* is the title with that prefix removed and leading spaces and hyphens
\* trimmed; the band name may end in punctuation ("R.E.M.").
C3_BandPrefixRemoved ==
  Returned("remove_band_name") =>
    LET title == input.title
        band == input.band
        n == Len(band)
        space == n + 1 <= Len(title) /\ title[n + 1] = " "
        cuts == PossessiveLengths(title, band) \cup (IF space THEN {0} ELSE {})
    IN (BeginsWithBand(title, band) /\ cuts # {}) =>
         output.result \in
           {LStrip(SubSeq(title, n + k + 1, Len(title)), {" ", "-"}) : k \in cuts}

\* the first standalone 4-digit number of the title (0: none)
FirstYearAt(title) ==
  LET hits == {i \in 1..Len(title) : YearAt(title, i)}
  IN IF hits = {} THEN 0 ELSE Min(hits)

\* the title without the four characters at i, the separators around what is
\* left and its empty parentheses trimmed
RestWithoutYearAt(title, i) ==
  Strip(RemoveEmptyParens(
          Strip(SubSeq(title, 1, i - 1) \o SubSeq(title, i + 4, Len(title)),
                {" ", "-"})),
        Whitespace)

\* C4: move_year_in_front(title) is the title when it holds no standalone
\* 4-digit number; otherwise it is "Y - rest" (or "Y" when rest is empty),
\* Y the first such number and rest the title with that one occurrence of Y
\* removed and trimmed, every other character, later occurrences of the same
\* digits included, kept in order.
C4_OnlyFirstYearMoved ==
  Returned("move_year_in_front") =>
    LET title == input.title
        i == FirstYearAt(title)
        rest == RestWithoutYearAt(title, i)
        year == SubSeq(title, i, i + 3)
    IN output.result =
         (IF i = 0 THEN title
          ELSE IF rest = <<>> THEN year
          ELSE year \o <<" ", "-", " ">> \o rest)

\* C5: sanitize is idempotent: sanitize(sanitize(t)) = sanitize(t) for every
\* title t, adjacent disc tokens included.
C5_SanitizeIdempotent ==
  Returned("sanitize") => sanitize(output.result) = output.result

\* an edge option is enabled when one of the comma-separated pieces of the
\* -e argument, lower-cased and trimmed, is its letter or its full name
Enabled(edge, letter, full) ==
  LET e == <<",">> \o edge \o <<",">>
  IN \E i, j \in 1..Len(e) :
       /\ i < j
       /\ e[i] = ","
       /\ e[j] = ","
       /\ \A k \in (i + 1)..(j - 1) : e[k] # ","
       /\ Strip(Lower(SubSeq(e, i + 1, j - 1)), Whitespace) \in {<<letter>>, full}

RemasterTrigger(base, edge) ==
  Contains(base, Remaster) /\ ~Enabled(edge, "r", Remaster)

DeluxTrigger(base, edge) ==
  Contains(base, Delux) /\ ~Enabled(edge, "d", Delux)

MultiyearsTrigger(base, edge) ==
  HasYearSpan(base) /\ ~Enabled(edge, "m", Multiyears)

FixedTrigger(base) == \E pattern \in EDGE_CASES : Contains(base, Lower(pattern))

\* C6: is_edge_case(path) is the disjunction of four independent triggers
\* on the lower-cased full path: 'remaster' present and not enabled, 'delux'
\* present and not enabled, a YYYY-YYYY span present and 'multiyears' not
\* enabled, one of the fixed irregular titles present. Enabling an option
\* (by its letter or its name in -e) switches off its own trigger only.
C6_EdgeCaseIsDisjunction ==
  Returned("is_edge_case") =>
    LET base == Lower(PathStr(input.path))
    IN output.result = (\/ RemasterTrigger(base, input.edge)
                        \/ DeluxTrigger(base, input.edge)
                        \/ MultiyearsTrigger(base, input.edge)
                        \/ FixedTrigger(base))

\* a path with 'remaster' and 'delux' in it, remaster enabled and delux not:
\* still an edge case
C6_Witness ==
  /\ Returned("is_edge_case")
  /\ Contains(Lower(PathStr(input.path)), Remaster)
  /\ Enabled(input.edge, "r", Remaster)
  /\ DeluxTrigger(Lower(PathStr(input.path)), input.edge)
  /\ ~MultiyearsTrigger(Lower(PathStr(input.path)), input.edge)
  /\ ~FixedTrigger(Lower(PathStr(input.path)))
  /\ output.result = TRUE

\* ------------------------------------------------------------------------
\* Claims about the run (Spec)
\* ------------------------------------------------------------------------
Depth(path) == Len(path) - Len(root)

Renames(r) == r.op = "rename_album_folder"

\* the title of the call has the folder renamed: it is not empty and names
\* another path
WouldRename(r) ==
  /\ Renames(r)
  /\ r.stages.title # <<>>
  /\ Append(Parent(r.path), r.stages.title) # r.path

\* the line a real run writes to renamed.log for the call
RealRenameLine(r) ==
  RENAME_TAG \o RelStr(r.path, root) \o ARROW
    \o PathStr(Append(Parent(r.path), r.stages.title))

\* C1: in dry-run mode the tree is never mutated: neither the flatten pass
\* nor the walk performs a rename or a mkdir, so the tree stays the tree the
\* run started on; and for every folder rename_album_folder is called on
\* whose final title is not empty and names another path, the message of a
\* real run, prefixed with "[DRY-RUN] ", is appended to renamed.log.
C1_DryRunNeverMutates ==
  /\ [](args.dry_run =>
          /\ dirs = start_tree.dirs
          /\ files = start_tree.files
          /\ Renames(last) => ~last.rename_called
          /\ last.op = "deflat_dir" => ~last.moved)
  /\ [][(args.dry_run /\ WouldRename(last')) =>
          renamed_log' = Append(renamed_log,
                                DRY_RUN_PREFIX \o RealRenameLine(last'))]_vars

\* a dry run whose flatten pass has reported a move and whose walk has
\* reported a rename
C1_Witness ==
  /\ args.dry_run
  /\ WouldRename(last)
  /\ renamed_log # <<>>
  /\ deflat_log # <<>>
  /\ SubSeq(deflat_log[1], 1, Len(DEFLAT_DRY_TAG)) = DEFLAT_DRY_TAG
  /\ dirs = start_tree.dirs

\* C2: for a folder whose name starts with four digits and " - ",
\* rename_album_folder never calls get_year_from_discogs, and the title it
\* ends with still starts with the same four digits and " - ".
C2_LeadingYearKept ==
  (Renames(last) /\ StartsWithYear(Name(last.path))) =>
    /\ last.stages.lookups = 0
    /\ StartsWithYear(last.stages.title)
    /\ SubSeq(last.stages.title, 1, 4) = SubSeq(Name(last.path), 1, 4)

\* C9: rename_album_folder is called only on directories at depth
\* end_level, at most once on each, and os.walk yields no directory deeper
\* than end_level.
C9_WalkStaysAboveEnd ==
  /\ \A p \in visited : Depth(p) <= args.end_level
  /\ \A i \in 1..Len(processed) : Depth(processed[i]) = args.end_level
  /\ \A i, j \in 1..Len(processed) : processed[i] = processed[j] => i = j

\* the position of the first " - " of a name (0: none)
SeparatorAt(name) ==
  LET hits == {i \in 1..Len(name) : MatchAt(name, <<" ", "-", " ">>, i)}
  IN IF hits = {} THEN 0 ELSE Min(hits)

\* root/artist and root/artist/album for a folder name split at its first
\* " - ", both parts trimmed
ArtistOf(path) ==
  PathJoin(root, Strip(SubSeq(Name(path), 1, SeparatorAt(Name(path)) - 1),
                       Whitespace))

AlbumOf(path) ==
  PathJoin(ArtistOf(path),
           Strip(SubSeq(Name(path), SeparatorAt(Name(path)) + 3,
                        Len(Name(path))),
                 Whitespace))

\* q once the folder at path has become the folder at to
Relocated(q, path, to) ==
  IF IsPrefix(path, q) THEN to \o SubSeq(q, Len(path) + 1, Len(q)) ELSE q

\* mkdir or rename raises: root/artist is a regular file, or
\* root/artist/album is a regular file or a directory that is not empty
Blocked(path) ==
  \/ ArtistOf(path) \in files
  \/ AlbumOf(path) \in files
  \/ /\ AlbumOf(path) \in dirs
     /\ \E q \in dirs \cup files : q # AlbumOf(path) /\ IsPrefix(AlbumOf(path), q)

BaseTitle(path) == sanitize(remove_band_name(Name(path), Name(Parent(path))))

\* the decision lines 201-220 take on a title
DecisionOn(path, title) ==
  IF title = <<>> THEN "empty"
  ELSE IF Append(Parent(path), title) = path THEN "same"
  ELSE "rename"

\* the call looked the year up and got none
FailedLookup(r) == Renames(r) /\ r.stages.lookups = 1 /\ r.stages.year = <<>>

\* the call r ends with this title, decides on it, and the walk goes on
\* unless the rename itself raises
EndsWith(r, title) ==
  /\ r.stages.title = title
  /\ r.decision = DecisionOn(r.path, title)
  /\ r.new_path = Append(Parent(r.path), title)
  /\ \/ pc = "walk"
     \/ /\ pc = "raised"
        /\ r.decision = "rename"
        /\ ~args.dry_run
        /\ RenameRaises(dirs, files, r.path, r.new_path)

\* C8: a failed lookup is never fatal and never changes the title: when
\* get_year_from_discogs gives no year (no token, the request raises, no
\* results, no result with a year) the title is the one the earlier stages
\* computed, the rename decision is taken on it, and the walk goes on unless
\* the rename itself raises; exactly one line is appended to not_found.log,
\* and none when the token is missing.
C8_FailedLookupNotFatal ==
  /\ [](FailedLookup(last) =>
          EndsWith(last, move_year_in_front(BaseTitle(last.path))))
  /\ [][FailedLookup(last') =>
          IF DISCOGS_TOKEN
          THEN /\ Len(not_found_log') = Len(not_found_log) + 1
               /\ SubSeq(not_found_log', 1, Len(not_found_log)) = not_found_log
          ELSE not_found_log' = not_found_log]_vars

\* a request that raised, with a token: one line in not_found.log, the
\* title as it was, the walk going on
C8_Witness ==
  /\ FailedLookup(last)
  /\ DISCOGS_TOKEN
  /\ Len(not_found_log) = 1
  /\ SubSeq(not_found_log[1], 1, Len(ERROR_TAG)) = ERROR_TAG
  /\ last.stages.title = last.stages.moved
  /\ last.stages.title # <<>>
  /\ pc = "walk"

\* the gate of the lookup and the title of an edge case, for a folder
\* with this base title that is, or is not, an edge case
Gated(r, base, edge) ==
  /\ r.stages.lookups \in {0, 1}
  /\ r.stages.edge = edge
  /\ r.stages.lookups = 1 <=>
       ~edge /\ ~StartsWithYear(move_year_in_front(base))
  /\ edge => EndsWith(r, base)

\* C10: rename_album_folder looks the year up at most once, and exactly
\* when the folder is no edge case and its title after the year move does
\* not start with four digits and " - ". For an edge case a SKIP line is
\* written to skipped.log, the year is neither moved nor looked up, and the
\* rename decision is taken on sanitize(remove_band_name(name, band)).
C10_StageGating ==
  /\ [](Renames(last) =>
          Gated(last, BaseTitle(last.path),
                is_edge_case(last.path, EDGE_OPTIONS(args.edge))))
  /\ [][Renames(last') =>
          /\ last'.stages.lookups = 0 => not_found_log' = not_found_log
          /\ last'.stages.edge =>
               /\ Len(skipped_log') > Len(skipped_log)
               /\ skipped_log'[Len(skipped_log) + 1] =
                    SKIP_TAG \o RelStr(last'.path, root)]_vars

\* an edge case whose sanitized title has it renamed all the same
C10_Witness ==
  /\ Renames(last)
  /\ last.stages.edge
  /\ last.stages.lookups = 0
  /\ last.decision = "rename"
  /\ last.stages.title = BaseTitle(last.path)
  /\ skipped_log # <<>>
  /\ renamed_log # <<>>

====
